---- MODULE Spec2Model ----
(***************************************************************************)
(* The credential vault of jules-turbo (src/src/lib/schema.ts, lines       *)
(* 68-272): setSecureApiKey / getSecureApiKey / removeSecureApiKey over    *)
(* localStorage, with the legacy plaintext writer of AuthContext.tsx.      *)
(*                                                                         *)
(* A JavaScript string is a sequence of UTF-16 code units (integers), a    *)
(* Uint8Array a sequence of integers in 0..255.  TextEncoder, TextDecoder, *)
(* btoa and atob are computed as the platform computes them.  SHA-256,     *)
(* PBKDF2 and AES-GCM are platform primitives; they are replaced by small  *)
(* arithmetic stand-ins that keep their contract on the values explored:   *)
(* the digest separates the environments of Envs, and the tag changes      *)
(* whenever the key, one nonce byte or one ciphertext byte changes.        *)
(***************************************************************************)
EXTENDS Integers, Sequences, FiniteSets, TLC

\* ------------------------------------------------------------- bounds
\* crypto.getRandomValues draws the nonce from 1..MaxNonce
MaxNonce == 2

\* ---------------------------------------------------- program constants
\* new Uint8Array(12)
IvLen == 12
\* AES-GCM's default tagLength (128 bits) of { name: "AES-GCM", iv }
TagLen == 16

\* "secure_"
STORAGE_PREFIX == <<115, 101, 99, 117, 114, 101, 95>>
\* "jules_api_key"
KEY_NAME == <<106, 117, 108, 101, 115, 95, 97, 112, 105, 95, 107, 101, 121>>
\* STORAGE_PREFIX + KEY_NAME
SECURE_KEY_NAME == STORAGE_PREFIX \o KEY_NAME

\* null (getItem of a missing key, a null apiKey)
NULL == <<-1>>
\* a rejected promise / thrown Error, as the value of a call
Throw == <<-2>>

\* ------------------------------------------------------------ strings
\* if (v): a string | null is truthy unless null or ""
Truthy(v) == v # NULL /\ v # <<>>

\* String.prototype.startsWith
startsWith(s, p) == Len(s) >= Len(p) /\ SubSeq(s, 1, Len(p)) = p

RECURSIVE Digits(_)
Digits(n) == IF n < 10 THEN <<48 + n>> ELSE Digits(n \div 10) \o <<48 + (n % 10)>>
\* Number.prototype.toString (integers)
toString(n) == IF n < 0 THEN <<45>> \o Digits(-n) ELSE Digits(n)

RECURSIVE join(_, _)
\* Array.prototype.join
join(parts, sep) ==
  IF parts = <<>> THEN <<>>
  ELSE IF Len(parts) = 1 THEN parts[1]
  ELSE parts[1] \o sep \o join(Tail(parts), sep)

\* ------------------------------------------------- TextEncoder/Decoder
IsHighSurrogate(u) == u >= 55296 /\ u <= 56319
IsLowSurrogate(u) == u >= 56320 /\ u <= 57343

\* UTF-8 bytes of one code point
Utf8Bytes(cp) ==
  IF cp < 128 THEN <<cp>>
  ELSE IF cp < 2048 THEN <<192 + cp \div 64, 128 + (cp % 64)>>
  ELSE IF cp < 65536
    THEN <<224 + cp \div 4096, 128 + ((cp \div 64) % 64), 128 + (cp % 64)>>
    ELSE <<240 + cp \div 262144, 128 + ((cp \div 4096) % 64),
           128 + ((cp \div 64) % 64), 128 + (cp % 64)>>

RECURSIVE TextEncode(_)
\* new TextEncoder().encode(s): a surrogate pair is one code point, a lone
\* surrogate is replaced by U+FFFD
TextEncode(s) ==
  IF s = <<>> THEN <<>>
  ELSE LET u == Head(s) IN
    IF IsHighSurrogate(u) /\ Len(s) >= 2 /\ IsLowSurrogate(s[2])
      THEN Utf8Bytes(65536 + (u - 55296) * 1024 + (s[2] - 56320))
             \o TextEncode(SubSeq(s, 3, Len(s)))
    ELSE IF IsHighSurrogate(u) \/ IsLowSurrogate(u)
      THEN Utf8Bytes(65533) \o TextEncode(Tail(s))
      ELSE Utf8Bytes(u) \o TextEncode(Tail(s))

IsCont(b) == b >= 128 /\ b <= 191

RECURSIVE Utf8Decode(_)
\* UTF-8 decoding, non-fatal: a byte that starts no well-formed sequence
\* becomes U+FFFD
Utf8Decode(b) ==
  IF b = <<>> THEN <<>>
  ELSE LET x == b[1]
           n == Len(b)
       IN
    IF x < 128 THEN <<x>> \o Utf8Decode(Tail(b))
    ELSE IF x >= 194 /\ x <= 223 /\ n >= 2 /\ IsCont(b[2])
      THEN <<(x - 192) * 64 + (b[2] - 128)>> \o Utf8Decode(SubSeq(b, 3, n))
    ELSE IF x >= 224 /\ x <= 239 /\ n >= 3 /\ IsCont(b[2]) /\ IsCont(b[3])
      THEN <<(x - 224) * 4096 + (b[2] - 128) * 64 + (b[3] - 128)>>
             \o Utf8Decode(SubSeq(b, 4, n))
    ELSE IF x >= 240 /\ x <= 244 /\ n >= 4
            /\ IsCont(b[2]) /\ IsCont(b[3]) /\ IsCont(b[4])
      THEN LET cp == (x - 240) * 262144 + (b[2] - 128) * 4096
                       + (b[3] - 128) * 64 + (b[4] - 128) - 65536
           IN <<55296 + cp \div 1024, 56320 + (cp % 1024)>>
                \o Utf8Decode(SubSeq(b, 5, n))
      ELSE <<65533>> \o Utf8Decode(Tail(b))

\* new TextDecoder().decode(b): ignoreBOM is false by default, so a leading
\* byte order mark EF BB BF is not part of the output
TextDecode(b) ==
  IF Len(b) >= 3 /\ SubSeq(b, 1, 3) = <<239, 187, 191>>
    THEN Utf8Decode(SubSeq(b, 4, Len(b)))
    ELSE Utf8Decode(b)

\* --------------------------------------------------------------- base64
B64Char(v) ==
  IF v < 26 THEN 65 + v
  ELSE IF v < 52 THEN 71 + v
  ELSE IF v < 62 THEN v - 4
  ELSE IF v = 62 THEN 43 ELSE 47

\* the sextet of a base64 character, -1 for any other character
B64Val(c) ==
  IF c >= 65 /\ c <= 90 THEN c - 65
  ELSE IF c >= 97 /\ c <= 122 THEN c - 71
  ELSE IF c >= 48 /\ c <= 57 THEN c + 4
  ELSE IF c = 43 THEN 62
  ELSE IF c = 47 THEN 63 ELSE -1

\* btoa(String.fromCharCode(...bytes))
btoa(b) ==
  LET n == Len(b)
      byte(i) == IF i <= n THEN b[i] ELSE 0
  IN [j \in 1..(4 * ((n + 2) \div 3)) |->
       LET q == (j - 1) \div 4
           k == (j - 1) % 4
           b1 == byte(3 * q + 1)
           b2 == byte(3 * q + 2)
           b3 == byte(3 * q + 3)
       IN IF k = 0 THEN B64Char(b1 \div 4)
          ELSE IF k = 1 THEN B64Char((b1 % 4) * 16 + b2 \div 16)
          ELSE IF k = 2
            THEN (IF 3 * q + 2 > n THEN 61 ELSE B64Char((b2 % 16) * 4 + b3 \div 64))
            ELSE (IF 3 * q + 3 > n THEN 61 ELSE B64Char(b3 % 64))]

IsAsciiWhitespace(c) == c \in {9, 10, 12, 13, 32}

\* Uint8Array.from(atob(s), c => c.charCodeAt(0)): the forgiving-base64
\* decode; Throw for an InvalidCharacterError
atob(s) ==
  LET t == SelectSeq(s, LAMBDA c : ~IsAsciiWhitespace(c))
      u == IF Len(t) > 0 /\ Len(t) % 4 = 0 /\ t[Len(t)] = 61
             THEN (IF t[Len(t) - 1] = 61
                     THEN SubSeq(t, 1, Len(t) - 2)
                     ELSE SubSeq(t, 1, Len(t) - 1))
             ELSE t
      m == Len(u)
      v(i) == IF i <= m THEN B64Val(u[i]) ELSE 0
  IN IF m % 4 = 1 \/ \E i \in 1..m : B64Val(u[i]) < 0
       THEN Throw
       ELSE [i \in 1..((m * 6) \div 8) |->
              LET q == (i - 1) \div 3
                  r == (i - 1) % 3
              IN IF r = 0 THEN v(4 * q + 1) * 4 + v(4 * q + 2) \div 16
                 ELSE IF r = 1
                   THEN (v(4 * q + 2) % 16) * 16 + v(4 * q + 3) \div 4
                   ELSE (v(4 * q + 3) % 4) * 64 + v(4 * q + 4)]

\* ----------------------------------------------------- key derivation
\* the environment read by getDeviceFingerprint: navigator.userAgent,
\* navigator.language, screen.colorDepth, screen.width, screen.height,
\* new Date().getTimezoneOffset(); unavailable are the attributes whose
\* property read gives undefined in this runtime
Env1 == [userAgent |-> <<85, 65>>, language |-> <<101, 110>>, colorDepth |-> 24,
         width |-> 800, height |-> 600, timezoneOffset |-> -60,
         unavailable |-> {}]
\* the same device after its time zone changed
Env2 == [Env1 EXCEPT !.timezoneOffset = 0]
Envs == {Env1, Env2}

\* the same device with one attribute changed: the browser updated, the
\* language switched, another colour depth, a narrower or a lower screen,
\* another time zone
DeviceEnvs ==
  {Env1,
   [Env1 EXCEPT !.userAgent = <<85, 66>>],
   [Env1 EXCEPT !.language = <<102, 114>>],
   [Env1 EXCEPT !.colorDepth = 30],
   [Env1 EXCEPT !.width = 80],
   [Env1 EXCEPT !.height = 60],
   Env2}

\* the attributes of navigator and screen a runtime may lack
Attributes == {"userAgent", "language", "colorDepth", "width", "height"}

\* "U|A" with language "e", and "U" with language "A|e": attribute strings
\* that contain the separator
SepEnvs ==
  {[Env1 EXCEPT !.userAgent = <<85, 124, 65>>, !.language = <<101>>],
   [Env1 EXCEPT !.userAgent = <<85>>, !.language = <<65, 124, 101>>]}

\* the environments the fingerprint is computed in: any attributes missing,
\* or all present with a separator inside a string
FingerprintEnvs ==
  {[Env1 EXCEPT !.unavailable = u] : u \in SUBSET Attributes} \cup SepEnvs

RECURSIVE DigestFold(_, _)
DigestFold(b, h) ==
  IF b = <<>> THEN h ELSE DigestFold(Tail(b), (h * 31 + Head(b) + 7) % 65521)

\* crypto.subtle.digest("SHA-256", data): a stand-in with a two-byte digest
Sha256(data) == LET h == DigestFold(data, 1) IN <<h \div 256, h % 256>>

HexDigit(v) == IF v < 10 THEN 48 + v ELSE 87 + v

RECURSIVE toHex(_)
\* bytes.map(b => b.toString(16).padStart(2, "0")).join("")
toHex(b) ==
  IF b = <<>> THEN <<>>
  ELSE <<HexDigit(Head(b) \div 16), HexDigit(Head(b) % 16)>> \o toHex(Tail(b))

\* components.join("|"): .toString() of an undefined attribute throws a
\* TypeError while the components are built, and join writes an undefined
\* element as the empty string
fingerprintStr(e) ==
  IF e.unavailable \cap {"colorDepth", "width", "height"} # {} THEN Throw
  ELSE
    LET components ==
          <<IF "userAgent" \in e.unavailable THEN <<>> ELSE e.userAgent,
            IF "language" \in e.unavailable THEN <<>> ELSE e.language,
            toString(e.colorDepth),
            toString(e.width) \o <<120>> \o toString(e.height),
            toString(e.timezoneOffset)>>
    IN join(components, <<124>>)

\* getDeviceFingerprint leaving the screen height out of the components
getDeviceFingerprint_noHeight(e) ==
  LET components == <<e.userAgent,
                      e.language,
                      toString(e.colorDepth),
                      toString(e.width),
                      toString(e.timezoneOffset)>>
  IN toHex(Sha256(TextEncode(join(components, <<124>>))))

getDeviceFingerprint(e) ==
  LET str == fingerprintStr(e)
  IN IF str = Throw THEN Throw ELSE toHex(Sha256(TextEncode(str)))

\* "jules-turbo-v1"
SALT == <<106, 117, 108, 101, 115, 45, 116, 117, 114, 98, 111, 45, 118, 49>>

\* crypto.subtle.importKey + crypto.subtle.deriveKey (PBKDF2): a stand-in, the
\* digest of key material and salt
Pbkdf2(keyMaterial, salt) == Sha256(keyMaterial \o salt)

\* deriveKey() in environment e
deriveKeyIn(e) ==
  LET fingerprint == getDeviceFingerprint(e)
      keyMaterial == TextEncode(fingerprint)
  IN IF fingerprint = Throw THEN Throw
     ELSE Pbkdf2(keyMaterial, TextEncode(SALT))

\* the key of every environment explored, computed once: deriveKey reads
\* nothing but the environment
DerivedKeys ==
  {<<e, deriveKeyIn(e)>> : e \in Envs \cup DeviceEnvs \cup FingerprintEnvs}

\* deriveKey keeping the key it derived first
deriveKey_memoized(e) == (CHOOSE p \in DerivedKeys : p[1] = Env1)[2]

deriveKey(e) == (CHOOSE p \in DerivedKeys : p[1] = e)[2]

\* ------------------------------------------------------------- AES-GCM
IvByte(iv, j) == IF iv = <<>> THEN 0 ELSE iv[((j - 1) % Len(iv)) + 1]

RECURSIVE BodySum(_, _)
BodySum(body, j) == IF j > Len(body) THEN 0 ELSE body[j] + BodySum(body, j + TagLen)

Keystream(key, iv, i) == (key[1] + 3 * key[2] + IvByte(iv, i) + i) % 256

\* the authentication tag over key, nonce and ciphertext
GcmTag(key, iv, body) ==
  [j \in 1..TagLen |->
    (key[((j - 1) % 2) + 1] * 7 + IvByte(iv, j) * 3 + BodySum(body, j)
       + Len(body) * 11 + j) % 256]

\* crypto.subtle.encrypt({ name: "AES-GCM", iv }, key, data): ciphertext || tag
AesGcmEncrypt(key, iv, data) ==
  LET body == [i \in 1..Len(data) |-> (data[i] + Keystream(key, iv, i)) % 256]
  IN body \o GcmTag(key, iv, body)

\* crypto.subtle.decrypt({ name: "AES-GCM", iv }, key, ciphertext): the data,
\* or Throw (OperationError) when the input is shorter than a tag or the tag
\* does not verify
AesGcmDecrypt(key, iv, ciphertext) ==
  LET n == Len(ciphertext) - TagLen IN
  IF n < 0 THEN Throw
  ELSE LET body == SubSeq(ciphertext, 1, n)
           tag == SubSeq(ciphertext, n + 1, n + TagLen)
       IN IF tag # GcmTag(key, iv, body) THEN Throw
          ELSE [i \in 1..n |-> (body[i] + 256 - Keystream(key, iv, i)) % 256]

\* crypto.getRandomValues(new Uint8Array(12)), for the random draw r
getRandomValues(r) == [i \in 1..IvLen |-> (r * i) % 256]

\* encrypt with an all-zero nonce instead of a random one
encrypt_fixedIv(plaintext, e, r, cryptoOk) ==
  IF ~cryptoOk THEN Throw
  ELSE LET key == deriveKey(e)
           data == TextEncode(plaintext)
           iv == [i \in 1..IvLen |-> 0]
           ciphertext == AesGcmEncrypt(key, iv, data)
           combined == iv \o ciphertext
       IN btoa(combined)

\* encrypt(plaintext) under environment e with random draw r; cryptoOk is
\* whether crypto.subtle exists and its promises resolve
encrypt(plaintext, e, r, cryptoOk) ==
  IF ~cryptoOk \/ deriveKey(e) = Throw THEN Throw
  ELSE LET key == deriveKey(e)
           data == TextEncode(plaintext)
           iv == getRandomValues(r)
           ciphertext == AesGcmEncrypt(key, iv, data)
           combined == iv \o ciphertext
       IN btoa(combined)

\* decrypt(encrypted) under environment e
decrypt(encrypted, e, cryptoOk) ==
  IF ~cryptoOk \/ deriveKey(e) = Throw THEN Throw
  ELSE LET key == deriveKey(e)
           combined == atob(encrypted)
       IN IF combined = Throw THEN Throw
          ELSE LET iv == SubSeq(combined, 1, IF Len(combined) < IvLen THEN Len(combined) ELSE IvLen)
                   ciphertext == SubSeq(combined, IvLen + 1, Len(combined))
                   plaintext == AesGcmDecrypt(key, iv, ciphertext)
               IN IF plaintext = Throw THEN Throw ELSE TextDecode(plaintext)

\* --------------------------------------------------------------- inputs
\* "k1"
K1 == <<107, 49>>
\* a secret that starts with U+FEFF
BomK == <<65279, 107>>
\* "secure_k": a key that starts with STORAGE_PREFIX
SecureK == STORAGE_PREFIX \o <<107>>
\* the secrets a caller stores
Secrets == {<<>>, K1, BomK}
\* the keys a user logs in with
LoginKeys == {K1, BomK, SecureK}
\* the calls of setApiKey(key, remember): a login that is remembered, a login
\* with an empty key, and handleLogout's setApiKey(null, false)
AuthInputs == {<<k, TRUE>> : k \in LoginKeys} \cup {<<<<>>, TRUE>>, <<NULL, FALSE>>}

\* "corrupted_data_xyz123"
CorruptedData == <<99, 111, 114, 114, 117, 112, 116, 101, 100, 95, 100, 97, 116,
                   97, 95, 120, 121, 122, 49, 50, 51>>
\* "AIza": text that base64-decodes to fewer bytes than a nonce
ShortData == <<65, 73, 122, 97>>
\* strings another writer may leave under the encrypted storage key
Garbage == {<<>>, CorruptedData, ShortData}

\* what a writer other than the vault and the login leaves under the legacy
\* key: the empty string (the login itself never writes one)
LegacyLeft == {<<>>}

\* how the platform steps of a call end: "crypto" is a rejected crypto.subtle
\* promise (the first one awaited is key derivation's), "quota" a QuotaExceededError of localStorage.setItem
Faults == {"none", "crypto", "quota"}

\* ---------------------------------------------------------------- state
VARIABLES
  localStorage,  \* the two records: [key name -> string or NULL]
  env,           \* the environment the fingerprint is read from
  available,     \* whether crypto.subtle exists in this runtime
  last,          \* the operation that completed last
  prev,          \* the store, clear or modification just before it, if any
  calls,         \* the calls issued without awaiting one another
  auth           \* the authentication layer: the key in memory, what is shown

vars == <<localStorage, env, available, last, prev, calls, auth>>

EmptyStorage == [k \in {KEY_NAME, SECURE_KEY_NAME} |-> NULL]

getItem(st, k) == st[k]
setItem(st, k, v) == [st EXCEPT ![k] = v]
removeItem(st, k) == [st EXCEPT ![k] = NULL]

\* isSecureStorageAvailable()
isSecureStorageAvailable == available

NoOp == [op |-> "none", arg |-> NULL, ret |-> NULL, pre |-> EmptyStorage,
         post |-> EmptyStorage, fp |-> Env1, fault |-> "none"]

\* what the next operation may rest on: a store or a clear that returned, or
\* a modification of the Envelope, with its argument and the environment it
\* ran in
Summary(l) ==
  IF l.op \in {"store", "clear", "tamper"} /\ l.ret # Throw
    THEN [op |-> l.op, arg |-> l.arg, fp |-> l.fp]
    ELSE [op |-> "none", arg |-> NULL, fp |-> Env1]

\* the two calls that may overlap, numbered in the order they are issued
CallIds == {1, 2}

\* a call not issued yet. pc is where the call stands, held the value it read
\* from storage before suspending, base the storage when the first call was
\* issued, overlap whether the other call was under way at some time during
\* this one, wrote the rank of its write of the Envelope among the writes,
\* nEnc and nDec the encryptions and decryptions it has started, afterClear
\* whether removeSecureApiKey() had returned when it was issued
Idle == [op |-> "idle", pc |-> "idle", arg |-> NULL, held |-> NULL,
         ret |-> NULL, fault |-> "none", base |-> EmptyStorage,
         overlap |-> FALSE, wrote |-> 0, nEnc |-> 0, nDec |-> 0,
         afterClear |-> FALSE]

NoCalls == [i \in CallIds |-> Idle]

\* const isAuthenticated = !!apiKey
isAuthenticated(apiKey) == Truthy(apiKey)

\* what ProtectedRoute returns: <Navigate to="/login" replace />, or its children
ProtectedRoute(authenticated) ==
  IF ~authenticated THEN "Navigate" ELSE "children"

\* AuthProvider renders with the key a.apiKey in memory: the context value is
\* computed, and the route of the current location renders under it
Render(a) ==
  LET b == [a EXCEPT !.isAuthenticated = isAuthenticated(a.apiKey)]
  IN IF b.location = "/login"
       THEN [b EXCEPT !.rendered = "LoginPage"]
       ELSE [b EXCEPT !.rendered = ProtectedRoute(b.isAuthenticated)]

\* the application is mounted on storage st: useState's initializer reads the
\* legacy record; remember is the flag of the latest setApiKey call
Mount(st) ==
  Render([apiKey |-> getItem(st, KEY_NAME), remember |-> FALSE,
          isAuthenticated |-> FALSE, location |-> "/login",
          rendered |-> "LoginPage"])

Init ==
  /\ localStorage = EmptyStorage
  /\ env \in Envs
  /\ available \in BOOLEAN
  /\ last = NoOp
  /\ prev = Summary(NoOp)
  /\ calls = NoCalls
  /\ auth = Mount(localStorage)

\* an operation runs to completion from the current state: it returns ret
\* (or throws, ret = Throw) and leaves the storage st
Completed(op, arg, ret, fault, st) ==
  /\ localStorage' = st
  /\ last' = [op |-> op, arg |-> arg, ret |-> ret, pre |-> localStorage,
              post |-> st, fp |-> env, fault |-> fault]
  /\ prev' = Summary(last)

\* an operation of the vault or of an outside writer runs to completion
Record(op, arg, ret, fault, st) ==
  /\ Completed(op, arg, ret, fault, st)
  /\ UNCHANGED <<env, available, calls, auth>>

\* ------------------------------------------------------ setSecureApiKey
\* setSecureApiKey(apiKey) on storage st in environment e, with random draw r;
\* the result is what the call returns (NULL for void, Throw) and the storage
\* it leaves
\* setSecureApiKey writing its argument instead of the ciphertext
setSecureApiKey_plain(st, e, apiKey, r, fault) ==
  LET encrypted == encrypt(apiKey, e, r, available /\ fault # "crypto")
  IN IF fault = "quota" \/ encrypted = Throw
       THEN [ret |-> Throw, st |-> st]
       ELSE LET st1 == setItem(st, SECURE_KEY_NAME, apiKey)
                legacyKey == getItem(st1, KEY_NAME)
            IN IF Truthy(legacyKey) /\ ~startsWith(legacyKey, STORAGE_PREFIX)
                 THEN [ret |-> NULL, st |-> removeItem(st1, KEY_NAME)]
                 ELSE [ret |-> NULL, st |-> st1]

\* setSecureApiKey removing the legacy record before it encrypts
setSecureApiKey_removeFirst(st, e, apiKey, r, fault) ==
  LET encrypted == encrypt(apiKey, e, r, available /\ fault # "crypto")
      legacyKey == getItem(st, KEY_NAME)
      st0 == IF Truthy(legacyKey) /\ ~startsWith(legacyKey, STORAGE_PREFIX)
               THEN removeItem(st, KEY_NAME) ELSE st
  IN IF fault = "quota" \/ encrypted = Throw
       THEN [ret |-> Throw, st |-> st0]
       ELSE [ret |-> NULL, st |-> setItem(st0, SECURE_KEY_NAME, encrypted)]

setSecureApiKey(st, e, apiKey, r, fault) ==
  LET encrypted == encrypt(apiKey, e, r, available /\ fault # "crypto")
  IN IF fault = "quota" \/ encrypted = Throw
       THEN [ret |-> Throw, st |-> st]
       ELSE LET st1 == setItem(st, SECURE_KEY_NAME, encrypted)
                legacyKey == getItem(st1, KEY_NAME)
            IN IF Truthy(legacyKey) /\ ~startsWith(legacyKey, STORAGE_PREFIX)
                 THEN [ret |-> NULL, st |-> removeItem(st1, KEY_NAME)]
                 ELSE [ret |-> NULL, st |-> st1]

\* ------------------------------------------------------ getSecureApiKey
\* getSecureApiKey going on to the legacy record after a failed decryption
getSecureApiKey_fallThrough(st, e, r, fault) ==
  LET encrypted == getItem(st, SECURE_KEY_NAME)
      plaintext == decrypt(encrypted, e, available /\ fault # "crypto")
      st0 == IF Truthy(encrypted) THEN removeItem(st, SECURE_KEY_NAME) ELSE st
      legacyKey == getItem(st0, KEY_NAME)
  IN IF Truthy(encrypted) /\ plaintext # Throw
       THEN [ret |-> plaintext, st |-> st]
       ELSE IF Truthy(legacyKey)
         THEN LET migration == setSecureApiKey(st0, e, legacyKey, r, fault)
              IN IF migration.ret # Throw
                   THEN [ret |-> legacyKey, st |-> removeItem(migration.st, KEY_NAME)]
                   ELSE [ret |-> legacyKey, st |-> st0]
         ELSE [ret |-> NULL, st |-> st0]

\* getSecureApiKey removing the legacy record whether or not migration worked
getSecureApiKey_removeAlways(st, e, r, fault) ==
  LET encrypted == getItem(st, SECURE_KEY_NAME) IN
  IF Truthy(encrypted)
    THEN LET plaintext == decrypt(encrypted, e, available /\ fault # "crypto")
         IN IF plaintext # Throw
              THEN [ret |-> plaintext, st |-> st]
              ELSE [ret |-> NULL, st |-> removeItem(st, SECURE_KEY_NAME)]
    ELSE LET legacyKey == getItem(st, KEY_NAME) IN
      IF Truthy(legacyKey)
        THEN LET migration == setSecureApiKey(st, e, legacyKey, r, fault)
             IN [ret |-> legacyKey, st |-> removeItem(migration.st, KEY_NAME)]
        ELSE [ret |-> NULL, st |-> st]

getSecureApiKey(st, e, r, fault) ==
  LET encrypted == getItem(st, SECURE_KEY_NAME) IN
  IF Truthy(encrypted)
    THEN LET plaintext == decrypt(encrypted, e, available /\ fault # "crypto")
         IN IF plaintext # Throw
              THEN [ret |-> plaintext, st |-> st]
              ELSE [ret |-> NULL, st |-> removeItem(st, SECURE_KEY_NAME)]
    ELSE LET legacyKey == getItem(st, KEY_NAME) IN
      IF Truthy(legacyKey)
        THEN LET migration == setSecureApiKey(st, e, legacyKey, r, fault)
             IN IF migration.ret # Throw
                  THEN [ret |-> legacyKey, st |-> removeItem(migration.st, KEY_NAME)]
                  ELSE [ret |-> legacyKey, st |-> st]
        ELSE [ret |-> NULL, st |-> st]

\* --------------------------------------------------- removeSecureApiKey
\* removeSecureApiKey forgetting the legacy record
removeSecureApiKey_secureOnly(st) == removeItem(st, SECURE_KEY_NAME)

removeSecureApiKey(st) ==
  removeItem(removeItem(st, SECURE_KEY_NAME), KEY_NAME)

\* -------------------------------------------------- AuthProvider.setApiKey
\* setApiKey persisting every non-empty key, remembered or not
setApiKey_ignoreRemember(st, key, remember) ==
  IF Truthy(key)
    THEN setItem(st, KEY_NAME, key)
    ELSE removeItem(st, KEY_NAME)

\* the storage part of setApiKey(key, remember), the plaintext writer of the
\* authentication layer
setApiKey(st, key, remember) ==
  IF Truthy(key) /\ remember
    THEN setItem(st, KEY_NAME, key)
    ELSE removeItem(st, KEY_NAME)

\* -------------------------------------------------------------- actions
\* await setSecureApiKey(s)
Store(s, r, fault) ==
  LET res == setSecureApiKey(localStorage, env, s, r, fault)
  IN Record("store", s, res.ret, fault, res.st)

\* await getSecureApiKey()
Load(r, fault) ==
  LET res == getSecureApiKey(localStorage, env, r, fault)
  IN Record("load", NULL, res.ret, fault, res.st)

\* removeSecureApiKey()
Clear == Record("clear", NULL, NULL, "none", removeSecureApiKey(localStorage))

\* a login or logout through the authentication layer: setApiKeyState(key),
\* the write or removal of the legacy record, and the render that follows
SetApiKey(key, remember) ==
  /\ Completed("setApiKey", key, NULL, "none",
               setApiKey(localStorage, key, remember))
  /\ auth' = Render([auth EXCEPT !.apiKey = key, !.remember = remember])
  /\ UNCHANGED <<env, available, calls>>

\* DashboardLayout.handleLogout, offered while the dashboard is shown:
\* setApiKey(null, false); navigate("/login")
handleLogout ==
  /\ auth.rendered = "children"
  /\ Completed("setApiKey", NULL, NULL, "none",
               setApiKey(localStorage, NULL, FALSE))
  /\ auth' = Render([auth EXCEPT !.apiKey = NULL, !.remember = FALSE,
                                 !.location = "/login"])
  /\ UNCHANGED <<env, available, calls>>

\* the user opens a dashboard path: <Route path="/"> renders ProtectedRoute
Visit ==
  /\ auth.location = "/login"
  /\ auth' = Render([auth EXCEPT !.location = "/"])
  /\ UNCHANGED <<localStorage, env, available, last, prev, calls>>

\* the rendered <Navigate to="/login" replace /> takes effect
Navigate ==
  /\ auth.rendered = "Navigate"
  /\ auth' = Render([auth EXCEPT !.location = "/login"])
  /\ UNCHANGED <<localStorage, env, available, last, prev, calls>>

\* localStorage.setItem('secure_jules_api_key', g) by another writer
CorruptWrite(g) ==
  Record("corrupt", g, NULL, "none", setItem(localStorage, SECURE_KEY_NAME, g))

\* localStorage.setItem('jules_api_key', v) by another writer
LegacyWrite(v) ==
  Record("legacy", v, NULL, "none", setItem(localStorage, KEY_NAME, v))

FlipSextet(c) == LET v == B64Val(c) IN B64Char(IF v % 2 = 0 THEN v + 1 ELSE v - 1)

\* the index of the last base64 character before the padding
LastData(s) == IF s[Len(s)] # 61 THEN Len(s)
               ELSE IF s[Len(s) - 1] # 61 THEN Len(s) - 1 ELSE Len(s) - 2

\* the characters of an Envelope that are changed: one in the nonce, one in
\* the ciphertext, and the last one before the padding
TamperPositions(s) == {1, 20, LastData(s)}

\* one character of the Envelope that store() just wrote is changed (its
\* sextet's low bit)
Tamper ==
  LET s == getItem(localStorage, SECURE_KEY_NAME) IN
  /\ last.op = "store"
  /\ last.ret # Throw
  /\ \E i \in TamperPositions(s) :
       Record("tamper", <<i>>, NULL, "none",
              setItem(localStorage, SECURE_KEY_NAME,
                      [s EXCEPT ![i] = FlipSextet(s[i])]))

\* the device's fingerprint drifts
EnvChange ==
  /\ env' \in Envs \ {env}
  /\ UNCHANGED <<localStorage, available, last, prev, calls, auth>>

\* ------------------------------------------------------- specifications
\* the random draws that matter to a call: none is made once a step failed
Draws(fault) == IF fault = "none" THEN 1..MaxNonce ELSE {1}

\* sequential call discipline: every call is awaited before the next
Next ==
  \/ \E s \in Secrets, f \in Faults : \E r \in Draws(f) : Store(s, r, f)
  \/ \E f \in Faults : \E r \in Draws(f) : Load(r, f)
  \/ Clear
  \/ \E a \in AuthInputs : SetApiKey(a[1], a[2])
  \/ \E g \in Garbage : CorruptWrite(g)
  \/ EnvChange

Spec == Init /\ [][Next]_vars

\* the same operations on a store whose Envelope an outside party modifies
NextTamper ==
  \/ \E s \in Secrets, r \in 1..MaxNonce : Store(s, r, "none")
  \/ \E r \in 1..MaxNonce : Load(r, "none")
  \/ Clear
  \/ Tamper
  \/ \E v \in LegacyLeft : LegacyWrite(v)
  \/ EnvChange

SpecTamper == Init /\ [][NextTamper]_vars

\* the keys a login or logout passes to setApiKey
AuthKeys == {NULL, <<>>} \cup LoginKeys

\* what an earlier session left persisted when the application is mounted
InitAuth ==
  /\ localStorage \in {setItem(EmptyStorage, KEY_NAME, k) : k \in {NULL, K1}}
  /\ env = Env1
  /\ available \in BOOLEAN
  /\ last = NoOp
  /\ prev = Summary(NoOp)
  /\ calls = NoCalls
  /\ auth = Mount(localStorage)

\* the authentication layer alone: logins, logouts and navigation
NextAuth ==
  \/ \E k \in AuthKeys, remember \in BOOLEAN : SetApiKey(k, remember)
  \/ handleLogout
  \/ Visit
  \/ Navigate

SpecAuth == InitAuth /\ [][NextAuth]_vars

\* the device's fingerprint drifts in any one attribute
Drift ==
  /\ env' \in DeviceEnvs \ {env}
  /\ UNCHANGED <<localStorage, available, last, prev, calls, auth>>

InitDevice ==
  /\ localStorage = EmptyStorage
  /\ env \in DeviceEnvs
  /\ available \in BOOLEAN
  /\ last = NoOp
  /\ prev = Summary(NoOp)
  /\ calls = NoCalls
  /\ auth = Mount(localStorage)

\* the vault on a device whose attributes change between calls; which nonce
\* is drawn plays no part in the binding, one draw is followed
NextDevice ==
  \/ \E s \in Secrets : Store(s, 1, "none")
  \/ Load(1, "none")
  \/ Drift

SpecDevice == InitDevice /\ [][NextDevice]_vars

\* getDeviceFingerprint() is called: the joined input and the fingerprint, or
\* the error it throws
Fingerprint ==
  Record("fingerprint", fingerprintStr(env), getDeviceFingerprint(env), "none",
         localStorage)

\* the runtime is another one: other attributes missing, other strings
Reconfigure ==
  /\ env' \in FingerprintEnvs \ {env}
  /\ UNCHANGED <<localStorage, available, last, prev, calls, auth>>

InitFingerprint ==
  /\ localStorage = EmptyStorage
  /\ env \in FingerprintEnvs
  /\ available \in BOOLEAN
  /\ last = NoOp
  /\ prev = Summary(NoOp)
  /\ calls = NoCalls
  /\ auth = Mount(localStorage)

NextFingerprint ==
  \/ Fingerprint
  \/ Reconfigure

SpecFingerprint == InitFingerprint /\ [][NextFingerprint]_vars

\* ------------------------------------------------------ overlapping calls
\* An async function runs without interruption up to its next await.  Both
\* setSecureApiKey and getSecureApiKey read the environment and, for a load,
\* the storage before their first await (the crypto work); everything after
\* it runs when the crypto promise has settled.

\* the storage two overlapping calls may start from: every combination of a
\* legacy record and of nothing, a corrupted value or an Envelope under the
\* encrypted key
StartStorages ==
  {[k \in {KEY_NAME, SECURE_KEY_NAME} |-> IF k = KEY_NAME THEN l ELSE s] :
     l \in {NULL, K1, BomK, SecureK},
     s \in {NULL, CorruptedData, encrypt(K1, Env1, 1, TRUE),
            encrypt(BomK, Env1, 1, TRUE)}}

InitConcurrent ==
  /\ localStorage \in StartStorages
  /\ env = Env1
  /\ available \in BOOLEAN
  /\ last = NoOp
  /\ prev = Summary(NoOp)
  /\ calls = NoCalls
  /\ auth = Mount(localStorage)

\* the call is under way: issued, and its caller has not resumed yet
Active(c) == c.pc \notin {"idle", "done"}

\* call i may be issued: it has not been, and the calls before it have
CanBegin(i) ==
  /\ calls[i].pc = "idle"
  /\ \A j \in CallIds : j < i => calls[j].pc # "idle"

\* call i is issued as c; the calls under way now overlap it
Issue(i, c) ==
  LET others == {j \in CallIds \ {i} : Active(calls[j])}
      issued == [c EXCEPT !.overlap = others # {},
                          !.base = IF i = 1 /\ calls[1].op = "idle"
                                     THEN localStorage ELSE calls[1].base,
                          !.afterClear = (last.op = "clear")]
  IN calls' = [j \in CallIds |->
                 IF j = i THEN issued
                 ELSE IF j \in others THEN [calls[j] EXCEPT !.overlap = TRUE]
                 ELSE calls[j]]

\* the rank of the next write of the Envelope
NextWrite ==
  1 + Cardinality({j \in CallIds : calls[j].wrote > 0})

\* setSecureApiKey(s) is called: it runs into encrypt() and suspends
BeginStore(i, s) ==
  /\ CanBegin(i)
  /\ Issue(i, [Idle EXCEPT !.op = "store", !.pc = "encrypt", !.arg = s,
                           !.nEnc = 1])
  /\ UNCHANGED <<localStorage, env, available, last, prev, auth>>

\* encrypt() has settled: setSecureApiKey writes the Envelope, removes the
\* legacy record and settles, or rejects
StoreResolve(i, r, fault) ==
  /\ calls[i].op = "store"
  /\ calls[i].pc = "encrypt"
  /\ LET res == setSecureApiKey(localStorage, env, calls[i].arg, r, fault)
     IN /\ localStorage' = res.st
        /\ calls' = [calls EXCEPT ![i].pc = "settled",
                                  ![i].ret = res.ret,
                                  ![i].fault = fault,
                                  ![i].wrote = IF res.ret = Throw THEN 0
                                               ELSE NextWrite]
  /\ UNCHANGED <<env, available, last, prev, auth>>

\* getSecureApiKey() is called: it reads the storage and suspends in
\* decrypt() or in the migration's setSecureApiKey(), or returns null
BeginLoad(i) ==
  /\ CanBegin(i)
  /\ LET encrypted == getItem(localStorage, SECURE_KEY_NAME)
         legacyKey == getItem(localStorage, KEY_NAME)
         c == [Idle EXCEPT !.op = "load"]
     IN IF Truthy(encrypted)
          THEN Issue(i, [c EXCEPT !.pc = "decrypt", !.held = encrypted,
                                  !.nDec = 1])
          ELSE IF Truthy(legacyKey)
            THEN Issue(i, [c EXCEPT !.pc = "migrate", !.held = legacyKey,
                                    !.nEnc = 1])
            ELSE Issue(i, [c EXCEPT !.pc = "settled"])
  /\ UNCHANGED <<localStorage, env, available, last, prev, auth>>

\* getSecureApiKey trying the decryption a second time before giving up
LoadDecryptResolve_retry(i, fault) ==
  /\ calls[i].pc = "decrypt"
  /\ LET plaintext == decrypt(calls[i].held, env, available /\ fault # "crypto")
     IN IF plaintext # Throw
          THEN /\ calls' = [calls EXCEPT ![i].pc = "settled",
                                         ![i].ret = plaintext,
                                         ![i].fault = fault]
               /\ UNCHANGED localStorage
          ELSE IF calls[i].nDec < 2
            THEN /\ calls' = [calls EXCEPT ![i].nDec = calls[i].nDec + 1]
                 /\ UNCHANGED localStorage
            ELSE /\ calls' = [calls EXCEPT ![i].pc = "settled",
                                           ![i].ret = NULL,
                                           ![i].fault = fault]
                 /\ localStorage' = removeItem(localStorage, SECURE_KEY_NAME)
  /\ UNCHANGED <<env, available, last, prev, auth>>

\* decrypt() has settled: the plaintext is returned, or the Envelope removed
LoadDecryptResolve(i, fault) ==
  /\ calls[i].pc = "decrypt"
  /\ LET plaintext == decrypt(calls[i].held, env, available /\ fault # "crypto")
     IN IF plaintext # Throw
          THEN /\ calls' = [calls EXCEPT ![i].pc = "settled",
                                         ![i].ret = plaintext,
                                         ![i].fault = fault]
               /\ UNCHANGED localStorage
          ELSE /\ calls' = [calls EXCEPT ![i].pc = "settled",
                                         ![i].ret = NULL,
                                         ![i].fault = fault]
               /\ localStorage' = removeItem(localStorage, SECURE_KEY_NAME)
  /\ UNCHANGED <<env, available, last, prev, auth>>

\* the migration's encrypt() has settled: its setSecureApiKey writes and
\* settles, or rejects and getSecureApiKey returns the legacy value
LoadMigrateResolve(i, r, fault) ==
  /\ calls[i].pc = "migrate"
  /\ LET res == setSecureApiKey(localStorage, env, calls[i].held, r, fault)
     IN /\ localStorage' = res.st
        /\ calls' = IF res.ret = Throw
                      THEN [calls EXCEPT ![i].pc = "settled",
                                         ![i].ret = calls[i].held,
                                         ![i].fault = fault]
                      ELSE [calls EXCEPT ![i].pc = "migrated",
                                         ![i].fault = fault,
                                         ![i].wrote = NextWrite]
  /\ UNCHANGED <<env, available, last, prev, auth>>

\* getSecureApiKey resumes after `await setSecureApiKey(legacyKey)`
LoadMigrated(i) ==
  /\ calls[i].pc = "migrated"
  /\ localStorage' = removeItem(localStorage, KEY_NAME)
  /\ calls' = [calls EXCEPT ![i].pc = "settled", ![i].ret = calls[i].held]
  /\ UNCHANGED <<env, available, last, prev, auth>>

\* the caller's await of call i resumes
Return(i) ==
  /\ calls[i].pc = "settled"
  /\ calls' = [calls EXCEPT ![i].pc = "done"]
  /\ UNCHANGED <<localStorage, env, available, last, prev, auth>>

\* the steps of call i after it was issued
Step(i) ==
  \/ \E f \in Faults : \E r \in Draws(f) : StoreResolve(i, r, f)
  \/ \E f \in {"none", "crypto"} : LoadDecryptResolve(i, f)
  \/ \E f \in Faults : \E r \in Draws(f) : LoadMigrateResolve(i, r, f)
  \/ LoadMigrated(i)
  \/ Return(i)

NextConcurrent ==
  \/ \E i \in CallIds, s \in Secrets : BeginStore(i, s)
  \/ \E i \in CallIds : BeginLoad(i)
  \/ \E i \in CallIds : Step(i)

SpecConcurrent == InitConcurrent /\ [][NextConcurrent]_vars

\* removeSecureApiKey() may run while calls are suspended at a crypto step
NextClear ==
  \/ NextConcurrent
  \/ Clear

SpecClear == InitConcurrent /\ [][NextClear]_vars

\* the caller, resumed after call i, is free to issue a further call in its
\* place; what the first call found in storage is kept
Again(i) ==
  /\ calls[i].pc = "done"
  /\ calls' = [calls EXCEPT ![i] = [Idle EXCEPT !.op = "again",
                                                !.base = calls[1].base]]
  /\ UNCHANGED <<localStorage, env, available, last, prev, auth>>

\* any number of load() calls, at most two of them under way at a time, with
\* every platform step succeeding where the primitive exists
NextLoads ==
  \/ \E i \in CallIds : BeginLoad(i)
  \/ \E i \in CallIds : LoadDecryptResolve(i, "none")
  \/ \E i \in CallIds, r \in 1..MaxNonce : LoadMigrateResolve(i, r, "none")
  \/ \E i \in CallIds : LoadMigrated(i)
  \/ \E i \in CallIds : Return(i)
  \/ \E i \in CallIds : Again(i)

SpecLoads == InitConcurrent /\ [][NextLoads]_vars

\* every crypto and storage step eventually answers, and a settled promise
\* resumes its awaiter: weak fairness of each call's steps, WF_vars(Step(i)),
\* with ENABLED <<Step(i)>>_vars written out as Active(calls[i]) (a call has
\* a next step exactly while it is under way)
SpecTerminating ==
  SpecConcurrent
    /\ \A i \in CallIds :
         []<>(~Active(calls[i])) \/ []<><<Step(i)>>_vars

\* ----------------------------------------------------------- properties
\* the call that completed last ran with the primitive available and no
\* platform step failing
Healthy == available /\ last.fault = "none"

\* the Envelopes encrypt() can write for a secret in environment e
EnvelopesOf(secret, e) == {encrypt(secret, e, r, TRUE) : r \in 1..MaxNonce}

\* C1: with the primitive available and the fingerprint unchanged, a load()
\* that directly follows a completed store(s), whatever the storage held
\* before the store, returns exactly s.
C1_RoundTrip ==
  (/\ last.op = "load"
   /\ prev.op = "store"
   /\ prev.fp = last.fp
   /\ Healthy)
  => last.ret = prev.arg

\* C2: with the primitive available, load() from PlaintextOnly with a
\* non-empty legacy value v returns v and leaves no Legacy Plaintext Record
\* and an Envelope that decrypts to v.
C2_Migration ==
  (/\ last.op = "load"
   /\ Healthy
   /\ last.pre[SECURE_KEY_NAME] = NULL
   /\ Truthy(last.pre[KEY_NAME]))
  => /\ last.ret = last.pre[KEY_NAME]
     /\ last.post[KEY_NAME] = NULL
     /\ last.post[SECURE_KEY_NAME] # NULL
     /\ decrypt(last.post[SECURE_KEY_NAME], last.fp, TRUE) = last.pre[KEY_NAME]

\* C3: whenever the encrypted storage key holds a string that is not a valid
\* Envelope, load() returns absent and has removed that entry.
C3_CorruptedRecovery ==
  (/\ last.op = "load"
   /\ last.pre[SECURE_KEY_NAME] # NULL
   /\ decrypt(last.pre[SECURE_KEY_NAME], last.fp, TRUE) = Throw)
  => /\ last.ret = NULL
     /\ last.post[SECURE_KEY_NAME] = NULL

\* C4: load() on an Envelope written by store(s) and then modified reports
\* absent, and load() never returns a plaintext other than the secret that
\* was encrypted.
C4_TamperDetection ==
  last.op = "load"
  => /\ prev.op = "tamper" => last.ret = NULL
     /\ (prev.op = "store" /\ last.ret # NULL) => last.ret = prev.arg

\* C5: with the primitive available, store(secret) from any state ends in
\* EncryptedOnly: an Envelope of secret is written and no Legacy Plaintext
\* Record is left, whatever it held.
C5_StoreEndsEncryptedOnly ==
  (last.op = "store" /\ Healthy)
  => /\ last.ret # Throw
     /\ last.post[SECURE_KEY_NAME] \in EnvelopesOf(last.arg, last.fp)
     /\ last.post[KEY_NAME] = NULL

\* the plaintext secrets of this model
Plain == Secrets \cup LoginKeys

\* C6: with the primitive available, no store, load or clear writes a value
\* under jules_api_key, and none writes under secure_jules_api_key a value
\* that is a plaintext secret; a store without plaintext records therefore
\* stays without them under these operations, starting with the empty one.
C6_NoPlaintextWritten ==
  (last.op \in {"store", "load", "clear"} /\ available)
  => /\ last.post[KEY_NAME] \in {NULL, last.pre[KEY_NAME]}
     /\ \/ last.post[SECURE_KEY_NAME] \in {NULL, last.pre[SECURE_KEY_NAME]}
        \/ last.post[SECURE_KEY_NAME] \notin Plain

\* C6's case: a store or a load has written a value under the encrypted key
C6_Witness ==
  /\ last.op \in {"store", "load"}
  /\ available
  /\ last.post[SECURE_KEY_NAME] \notin {NULL, last.pre[SECURE_KEY_NAME]}

\* C7: clear() leaves both records absent from any state and never fails;
\* a second clear() changes nothing, and a load() after clear() returns
\* absent.
C7_Clear ==
  /\ last.op = "clear" => (last.ret # Throw /\ last.post = EmptyStorage)
  /\ (last.op = "clear" /\ prev.op = "clear") => last.post = last.pre
  /\ (last.op = "load" /\ prev.op = "clear")
       => (last.ret = NULL /\ last.post = EmptyStorage)

\* C7's case: clear() has run on a store holding both records
C7_Witness ==
  /\ last.op = "clear"
  /\ last.pre[KEY_NAME] # NULL
  /\ last.pre[SECURE_KEY_NAME] # NULL

\* C8: when the primitive is unavailable, store(s) completes without an
\* error, writes s as the Legacy Plaintext Record and no Envelope, and a
\* following load() returns s.
C8_Fallback ==
  /\ (last.op = "store" /\ ~available /\ last.fault = "none")
       => /\ last.ret # Throw
          /\ last.post[KEY_NAME] = last.arg
          /\ last.post[SECURE_KEY_NAME] = NULL
  /\ (last.op = "load" /\ prev.op = "store" /\ ~available /\ last.fault = "none")
       => last.ret = prev.arg

\* C9 as claimed: a load() that finds an Envelope failing to decrypt while a
\* Legacy Plaintext Record exists migrates that record in the same call.
C9_FallThrough ==
  (/\ last.op = "load"
   /\ Healthy
   /\ last.pre[SECURE_KEY_NAME] # NULL
   /\ last.pre[KEY_NAME] # NULL
   /\ decrypt(last.pre[SECURE_KEY_NAME], last.fp, TRUE) = Throw)
  => /\ last.post[KEY_NAME] = NULL
     /\ last.post[SECURE_KEY_NAME] \in EnvelopesOf(last.pre[KEY_NAME], last.fp)

\* C9 amended: a load() that finds a non-empty value under the encrypted key
\* failing to decrypt while a Legacy Plaintext Record exists deletes the
\* Envelope and returns absent; it leaves the legacy record unchanged and
\* writes no new Envelope.
C9_NoFallThrough ==
  (/\ last.op = "load"
   /\ Truthy(last.pre[SECURE_KEY_NAME])
   /\ last.pre[KEY_NAME] # NULL
   /\ decrypt(last.pre[SECURE_KEY_NAME], last.fp,
              available /\ last.fault # "crypto") = Throw)
  => /\ last.ret = NULL
     /\ last.post[SECURE_KEY_NAME] = NULL
     /\ last.post[KEY_NAME] = last.pre[KEY_NAME]

\* C9's case: load() has run on a corrupted Envelope beside a legacy record
C9_Witness ==
  /\ last.op = "load"
  /\ last.pre[SECURE_KEY_NAME] = CorruptedData
  /\ Truthy(last.pre[KEY_NAME])
  /\ Healthy

\* C10: a load() from PlaintextOnly whose migration fails at the encrypt or
\* the write step returns the legacy value without an error and leaves the
\* storage as it was: the legacy record intact, no Envelope.
C10_MigrationFailure ==
  (/\ last.op = "load"
   /\ last.pre[SECURE_KEY_NAME] = NULL
   /\ Truthy(last.pre[KEY_NAME])
   /\ ~Healthy)
  => /\ last.ret = last.pre[KEY_NAME]
     /\ last.post = last.pre

\* C10's case: the write step of a migration has failed
C10_Witness ==
  /\ last.op = "load"
  /\ last.pre[SECURE_KEY_NAME] = NULL
  /\ Truthy(last.pre[KEY_NAME])
  /\ available
  /\ last.fault = "quota"

\* C11: a load() that finds an Envelope which decrypts returns the secret
\* that Envelope was made from and leaves the storage as it was, the Legacy
\* Plaintext Record of state Both included.
C11_LoadLeavesStorage ==
  (/\ last.op = "load"
   /\ Healthy
   /\ Truthy(last.pre[SECURE_KEY_NAME])
   /\ decrypt(last.pre[SECURE_KEY_NAME], last.fp, TRUE) # Throw)
  => /\ last.ret # NULL
     /\ last.pre[SECURE_KEY_NAME] \in EnvelopesOf(last.ret, last.fp)
     /\ last.post = last.pre

\* C13: load() on a store whose only record is an Envelope that cannot be
\* decrypted gives what load() on an empty store gives: absent, no error,
\* and the store empty afterwards.
C13_AbsenceIndistinguishable ==
  (/\ last.op = "load"
   /\ last.pre[KEY_NAME] = NULL
   /\ \/ last.pre[SECURE_KEY_NAME] = NULL
      \/ decrypt(last.pre[SECURE_KEY_NAME], last.fp, TRUE) = Throw)
  => /\ last.ret = NULL
     /\ last.post = EmptyStorage

\* C14: a load() with an Envelope present during which key derivation fails
\* ends with an error for the caller, not with absent.
C14_DerivationErrorPropagates ==
  (/\ last.op = "load"
   /\ Truthy(last.pre[SECURE_KEY_NAME])
   /\ available
   /\ last.fault = "crypto")
  => last.ret = Throw

\* the nonce an Envelope starts with
Nonce(envelope) == SubSeq(atob(envelope), 1, IvLen)

\* the nonces the random source can deliver
RandomNonces == {getRandomValues(r) : r \in 1..MaxNonce}

C18_LoginStoresEncrypted ==
  (last.op = "setApiKey" /\ Truthy(last.arg))
  => /\ last.post[KEY_NAME] # last.arg
     /\ last.post[SECURE_KEY_NAME] # NULL
     /\ decrypt(last.post[SECURE_KEY_NAME], last.fp, TRUE) = last.arg

\* C12: the key is derived anew in every call: a load() that directly follows
\* a completed store(s), with an attribute of the environment changed in
\* between, returns absent, not s, and deletes the Envelope.
C12_DeviceBinding ==
  (/\ last.op = "load"
   /\ prev.op = "store"
   /\ prev.fp # last.fp)
  => /\ last.ret = NULL
     /\ last.ret # prev.arg
     /\ last.post[SECURE_KEY_NAME] = NULL

\* C12's case: a load() has run right after a store() made in another
\* environment
C12_Witness ==
  /\ last.op = "load"
  /\ prev.op = "store"
  /\ prev.fp # last.fp
  /\ last.pre[SECURE_KEY_NAME] # NULL

\* the attributes in which two environments differ
DifferingAttributes(a, b) == {f \in DOMAIN a : a[f] # b[f]}

\* C20: two derivations in the same environment give the same key (a load()
\* right after a store() in that environment decrypts), and a change of
\* exactly one attribute changes the joined fingerprint input and the key.
C20_FingerprintStability ==
  /\ (last.op = "load" /\ prev.op = "store" /\ prev.fp = last.fp)
       => last.ret # NULL
  /\ last.fp = env => deriveKey(last.fp) = deriveKey(env)
  /\ Cardinality(DifferingAttributes(last.fp, env)) = 1
       => /\ fingerprintStr(last.fp) # fingerprintStr(env)
          /\ deriveKey(last.fp) # deriveKey(env)

\* C20's case: a call has derived the key and the screen height has changed
\* since, nothing else
C20_Witness ==
  /\ last.op = "store"
  /\ last.ret # Throw
  /\ DifferingAttributes(last.fp, env) = {"height"}

\* what a load() run before either call was issued returns
PreValue == getSecureApiKey(calls[1].base, env, 1, "none").ret

\* C15: a load() that overlaps a store(s2) returns what a load() run before
\* the store would have returned, or s2, and nothing else.
C15_OverlappingLoad ==
  \A i, j \in CallIds :
    (/\ calls[i].op = "load"
     /\ calls[i].pc \in {"settled", "done"}
     /\ calls[i].overlap
     /\ calls[j].op = "store"
     /\ available
     /\ calls[i].fault = "none"
     /\ calls[j].fault = "none")
    => calls[i].ret \in {PreValue, calls[j].arg}

\* C16: when two overlapping stores have both completed, the storage holds
\* an Envelope of the secret of the store that wrote last, it decrypts to
\* that secret, and a load() then returns it.
C16_LastWriterWins ==
  \A i, j \in CallIds :
    (/\ i # j
     /\ calls[i].op = "store" /\ calls[i].pc = "done" /\ calls[i].ret # Throw
     /\ calls[j].op = "store" /\ calls[j].pc = "done" /\ calls[j].ret # Throw
     /\ calls[i].overlap
     /\ calls[i].wrote > calls[j].wrote)
    => /\ localStorage[SECURE_KEY_NAME] \in EnvelopesOf(calls[i].arg, env)
       /\ decrypt(localStorage[SECURE_KEY_NAME], env, TRUE) = calls[i].arg
       /\ getSecureApiKey(localStorage, env, 1, "none").ret = calls[i].arg

\* C19: every call that was issued completes or fails; it starts at most
\* one encryption and at most one decryption (a store no decryption), and
\* once its caller has resumed it does nothing more.
C19_Terminates ==
  /\ [](\A i \in CallIds :
          /\ calls[i].nEnc <= 1
          /\ calls[i].nDec <= 1
          /\ calls[i].op = "store" => calls[i].nDec = 0)
  /\ [][\A i \in CallIds : calls[i].pc = "done" => calls'[i] = calls[i]]_vars
  /\ \A i \in CallIds : (calls[i].pc # "idle") ~> (calls[i].pc = "done")

\* C19's case: a load() that overlapped another call has migrated the legacy
\* record and returned
C19_Witness ==
  \E i \in CallIds :
    /\ calls[i].op = "load"
    /\ calls[i].pc = "done"
    /\ calls[i].overlap
    /\ calls[i].nEnc = 1
    /\ calls[i].wrote > 0

\* C27: a store(s) that ends with an error, because key derivation or
\* encryption failed, leaves both records as they were before the call: no
\* Envelope written or replaced, the Legacy Plaintext Record not deleted.
C27_FailedStoreChangesNothing ==
  (last.op = "store" /\ last.ret = Throw)
  => /\ last.post = last.pre
     /\ localStorage = last.pre

\* C27's case: the encryption of a store() has failed on a store holding an
\* Envelope and a legacy record that a store() would delete
C27_Witness ==
  /\ last.op = "store"
  /\ last.ret = Throw
  /\ available
  /\ last.fault = "crypto"
  /\ last.pre[SECURE_KEY_NAME] # NULL
  /\ Truthy(last.pre[KEY_NAME])
  /\ ~startsWith(last.pre[KEY_NAME], STORAGE_PREFIX)

\* C28: with the primitive available, whenever load() returns a secret, no
\* Legacy Plaintext Record is left when it completes, from PlaintextOnly,
\* EncryptedOnly and Both.
C28_NoLegacyAfterLoad ==
  (last.op = "load" /\ available /\ last.ret \notin {NULL, Throw})
  => last.post[KEY_NAME] = NULL

\* C22: load() takes a record to exist when its key is present, whatever the
\* value: with no Envelope and a Legacy Plaintext Record holding the empty
\* string it migrates, leaving no legacy record and an Envelope of "".
C22_EmptyLegacyMigrates ==
  (/\ last.op = "load"
   /\ Healthy
   /\ last.pre[SECURE_KEY_NAME] = NULL
   /\ last.pre[KEY_NAME] = <<>>)
  => /\ last.post[KEY_NAME] = NULL
     /\ last.post[SECURE_KEY_NAME] \in EnvelopesOf(<<>>, last.fp)

\* C21: the Fingerprint Generator is total: in every environment, with any
\* of user agent, language, colour depth and screen size unavailable, it
\* puts a placeholder for what is missing, returns a fingerprint and raises
\* no error.
C21_FingerprintTotal ==
  last.op = "fingerprint" => last.ret # Throw

\* the attribute values of an environment, in the order they are joined
Tuple(e) == <<e.userAgent, e.language, e.colorDepth, e.width, e.height,
              e.timezoneOffset>>

\* C30: the fingerprint input is an injective encoding of the environment:
\* two different tuples of attributes, separator characters inside the
\* strings included, are joined into different strings before hashing.
C30_JoinInjective ==
  (/\ last.op = "fingerprint"
   /\ last.fp.unavailable = {}
   /\ env.unavailable = {}
   /\ Tuple(last.fp) # Tuple(env))
  => last.arg # fingerprintStr(env)

C24_StoreNotUndone ==
  \A i \in CallIds :
    (/\ calls[i].op = "store"
     /\ calls[i].pc = "done"
     /\ calls[i].ret # Throw
     /\ available
     /\ \A j \in CallIds \ {i} :
          \/ calls[j].op = "idle"
          \/ /\ calls[j].op = "load"
             /\ calls[j].pc = "done"
             /\ calls[j].overlap
             /\ calls[j].fault = "none")
    => /\ localStorage[SECURE_KEY_NAME] # NULL
       /\ decrypt(localStorage[SECURE_KEY_NAME], env, TRUE) = calls[i].arg
       /\ getSecureApiKey(localStorage, env, 1, "none").ret = calls[i].arg

\* C29: concurrent migrations converge: from PlaintextOnly with a non-empty
\* v and the primitive available, two overlapping load() calls both return
\* v, and when both have completed the storage holds no Legacy Plaintext
\* Record and an Envelope that decrypts to v.
C29_MigrationsConverge ==
  (/\ \A i \in CallIds :
        /\ calls[i].op = "load"
        /\ calls[i].pc = "done"
        /\ calls[i].overlap
        /\ calls[i].fault = "none"
   /\ available
   /\ calls[1].base[SECURE_KEY_NAME] = NULL
   /\ Truthy(calls[1].base[KEY_NAME]))
  => /\ \A i \in CallIds : calls[i].ret = calls[1].base[KEY_NAME]
     /\ localStorage[KEY_NAME] = NULL
     /\ localStorage[SECURE_KEY_NAME] # NULL
     /\ decrypt(localStorage[SECURE_KEY_NAME], env, TRUE)
          = calls[1].base[KEY_NAME]

\* C26: clear() is final: once clear() has returned and no store is started
\* after it, the storage is empty in every later state, also when a store()
\* or a migrating load() was suspended at a crypto step while clear() ran.
C26_ClearIsFinal ==
  (/\ last.op = "clear"
   /\ \A i \in CallIds : calls[i].op = "store" => ~calls[i].afterClear)
  => localStorage = EmptyStorage

\* the secret v can be got back from the storage: it is the legacy record,
\* or the Envelope decrypts to it
Recoverable(v) ==
  \/ localStorage[KEY_NAME] = v
  \/ /\ localStorage[SECURE_KEY_NAME] # NULL
     /\ decrypt(localStorage[SECURE_KEY_NAME], env, TRUE) = v

\* C25: overlapping loads alone never lose a recoverable secret: from a
\* Legacy Plaintext Record holding v, with or without a corrupted Envelope,
\* the primitive available and the fingerprint fixed, v is recoverable after
\* any interleaving of any number of load() calls.
C25_LoadsKeepSecret ==
  (/\ calls[1].op # "idle"
   /\ available
   /\ Truthy(calls[1].base[KEY_NAME])
   /\ calls[1].base[SECURE_KEY_NAME] \in {NULL, CorruptedData})
  => Recoverable(calls[1].base[KEY_NAME])

====
